---- MODULE Spec2Model ----
(***************************************************************************)
(* Maintenance layer of the Substrate basic transaction pool               *)
(* (client/transaction-pool/src/lib.rs): the revalidation scheduler        *)
(* (RevalidationStatus, RevalidationStrategy) and BasicPool::maintain.     *)
(*                                                                         *)
(* Option<T> is modelled as a set with at most one element: None is {}     *)
(* and Some(x) is {x}.  Time is in seconds, block heights are naturals.    *)
(***************************************************************************)
EXTENDS Integers, Sequences, FiniteSets, TLC

\* ---------------------------------------------------------------- bounds
\* Block heights offered to maintain: 0, BlockPeriod - 1 (one short of the first
\* deadline) and k * BlockPeriod for k up to MaxBlockPeriods.
MaxBlockPeriods == 2
\* The clock visits 0, TimePeriod - 1 and k * TimePeriod for k up to MaxTimePeriods.
MaxTimePeriods == 1
\* Transactions are 1..NumTxs.
NumTxs == 3
\* A retracted list holds the block hashes 1..n, n at most MaxRetracted.
MaxRetracted == 2
\* A block body holds at most MaxBody transactions.
MaxBody == 1
\* Maintenance futures that may be in flight at once.
MaxCycles == 3

\* ------------------------------------------------------ program constants
\* maintain: Some(std::time::Duration::from_secs(60))
TimePeriod == 60
\* maintain: Some(20.into())
BlockPeriod == 20
\* RevalidationStrategy::next, Always: revalidate_amount: Some(16)
AlwaysAmount == 16

None == {}
Some(x) == {x}

Heights == {0, BlockPeriod - 1} \cup {k * BlockPeriod : k \in 1..MaxBlockPeriods}
Times == {0, TimePeriod - 1} \cup {k * TimePeriod : k \in 1..MaxTimePeriods}
Txs == 1..NumTxs
Cycles == 1..MaxCycles

\* ----------------------------------------------------- RevalidationStatus
NotScheduled == [tag |-> "NotScheduled"]
InProgress == [tag |-> "InProgress"]
Scheduled(t, b) == [tag |-> "Scheduled", time |-> t, block |-> b]

\* Variants of the status, which the properties of the strategy must tell from
\* the code: a clear that lets a running pass stand; deadlines armed without
\* the periods; both deadlines wanted; a pass in progress asked for again.
RevalidationStatus_clear_keeps_progress(status) ==
  IF status.tag = "InProgress" THEN status ELSE NotScheduled
RevalidationStatus_next_required_no_period(status, block, instant, time_period, block_period) ==
  CASE status.tag = "NotScheduled" ->
         [status |-> Scheduled({instant : p \in time_period}, {block : p \in block_period}),
          ret |-> FALSE]
    [] status.tag = "Scheduled" ->
         LET is_required == (\E at \in status.time : instant >= at)
                            \/ (\E at \in status.block : block >= at)
         IN [status |-> IF is_required THEN InProgress ELSE status, ret |-> is_required]
    [] status.tag = "InProgress" -> [status |-> status, ret |-> FALSE]
RevalidationStatus_next_required_both(status, block, instant, time_period, block_period) ==
  CASE status.tag = "NotScheduled" ->
         [status |-> Scheduled({instant + p : p \in time_period},
                               {block + p : p \in block_period}),
          ret |-> FALSE]
    [] status.tag = "Scheduled" ->
         LET is_required == (\E at \in status.time : instant >= at)
                            /\ (\E at \in status.block : block >= at)
         IN [status |-> IF is_required THEN InProgress ELSE status, ret |-> is_required]
    [] status.tag = "InProgress" -> [status |-> status, ret |-> FALSE]
RevalidationStatus_next_required_reenters(status, block, instant, time_period, block_period) ==
  CASE status.tag = "NotScheduled" ->
         [status |-> Scheduled({instant + p : p \in time_period},
                               {block + p : p \in block_period}),
          ret |-> FALSE]
    [] status.tag = "Scheduled" ->
         LET is_required == (\E at \in status.time : instant >= at)
                            \/ (\E at \in status.block : block >= at)
         IN [status |-> IF is_required THEN InProgress ELSE status, ret |-> is_required]
    [] status.tag = "InProgress" -> [status |-> status, ret |-> TRUE]

\* RevalidationStatus::clear: *self = Self::NotScheduled
RevalidationStatus_clear(status) == NotScheduled

\* RevalidationStatus::next_required(&mut self, block, time_period, block_period),
\* with Instant::now() = instant.  Gives the new status and the returned bool.
RevalidationStatus_next_required(status, block, instant, time_period, block_period) ==
  CASE status.tag = "NotScheduled" ->
         [status |-> Scheduled({instant + p : p \in time_period},
                               {block + p : p \in block_period}),
          ret |-> FALSE]
    [] status.tag = "Scheduled" ->
         LET is_required == (\E at \in status.time : instant >= at)
                            \/ (\E at \in status.block : block >= at)
         IN [status |-> IF is_required THEN InProgress ELSE status,
             ret |-> is_required]
    [] status.tag = "InProgress" ->
         [status |-> status, ret |-> FALSE]

\* --------------------------------------------------- RevalidationStrategy
Always == [kind |-> "Always"]
Light(status) == [kind |-> "Light", status |-> status]

RevalidationAction(revalidate, resubmit, amount) ==
  [revalidate |-> revalidate, resubmit |-> resubmit, revalidate_amount |-> amount]

\* RevalidationStrategy::clear
RevalidationStrategy_clear(s) ==
  IF s.kind = "Light" THEN Light(RevalidationStatus_clear(s.status)) ELSE s

\* Variants of `next` that the properties below must tell from the code: Always
\* without an amount, and Light asking for resubmission.
RevalidationStrategy_next_no_amount(s, block, instant, time_period, block_period) ==
  IF s.kind = "Light"
  THEN LET r == RevalidationStatus_next_required(s.status, block, instant,
                                                 time_period, block_period)
       IN [strategy |-> Light(r.status),
           action |-> RevalidationAction(r.ret, FALSE, None)]
  ELSE [strategy |-> s,
        action |-> RevalidationAction(TRUE, TRUE, None)]
RevalidationStrategy_next_light_resubmits(s, block, instant, time_period, block_period) ==
  IF s.kind = "Light"
  THEN LET r == RevalidationStatus_next_required(s.status, block, instant,
                                                 time_period, block_period)
       IN [strategy |-> Light(r.status),
           action |-> RevalidationAction(r.ret, TRUE, None)]
  ELSE [strategy |-> s,
        action |-> RevalidationAction(TRUE, TRUE, Some(AlwaysAmount))]

\* RevalidationStrategy::next: the new strategy value and the RevalidationAction.
RevalidationStrategy_next(s, block, instant, time_period, block_period) ==
  IF s.kind = "Light"
  THEN LET r == RevalidationStatus_next_required(s.status, block, instant,
                                                 time_period, block_period)
       IN [strategy |-> Light(r.status),
           action |-> RevalidationAction(r.ret, FALSE, None)]
  ELSE [strategy |-> s,
        action |-> RevalidationAction(TRUE, TRUE, Some(AlwaysAmount))]

\* BasicPool::with_revalidation_type: the strategy a new pool starts with.
with_revalidation_type(revalidation_type) ==
  IF revalidation_type = "Light" THEN Light(NotScheduled) ELSE Always

\* ------------------------------------------------------------ collaborators
\* Result<T, E>: Err, or Ok(v).
Err == [ok |-> FALSE]
Ok(v) == [ok |-> TRUE, v |-> v]

\* Extrinsic::is_signed of transaction tx: Some(true), None (no signature
\* information) or Some(false), a fixed attribute of the transaction.
is_signed(tx) ==
  CASE tx % 3 = 1 -> Some(TRUE)
    [] tx % 3 = 2 -> None
    [] OTHER -> Some(FALSE)

\* Option::unwrap_or(default)
unwrap_or(opt, default) == IF opt = None THEN default ELSE CHOOSE x \in opt : TRUE

\* Pool::hash_of: an injective map from transactions to pool hashes.
hash_of(tx) == <<"hash", tx>>

\* Pool::prune_known(at, hashes), successful: the transactions with these
\* hashes are no longer pending.
Pool_prune_known(p, hashes) == {tx \in p : hash_of(tx) \notin hashes}

\* Pool::submit_at(at, xts, is_resubmission), the transactions it accepted.
Pool_submit_at(p, accepted) == p \cup accepted

\* Pool::revalidate_ready(at, amount), the transactions it found invalid.
Pool_revalidate_ready(p, removed) == p \ removed

\* Pool::status().is_empty()
Pool_is_empty(p) == p = {}

RECURSIVE SeqsUpTo(_, _)
\* Sequences without repetition over S of length at most n.
SeqsUpTo(S, n) ==
  IF n = 0 THEN {<<>>}
  ELSE LET shorter == SeqsUpTo(S, n - 1)
       IN shorter \cup {Append(q, x) : q \in {r \in shorter : Len(r) = n - 1},
                                      x \in S}

Range(q) == {q[i] : i \in 1..Len(q)}
NoRepeat(q) == Cardinality(Range(q)) = Len(q)

\* ChainApi::block_body results: Err, Ok(None), Ok(Some(body)).
Bodies == {q \in SeqsUpTo(Txs, MaxBody) : NoRepeat(q)}
BodyResults == {Err, Ok(None)} \cup {Ok(Some(b)) : b \in Bodies}
\* ChainApi::block_id_to_number results for the block at height id.
NumberResults(id) == {Err, Ok(None), Ok(Some(id))}
\* The retracted lists handed to maintain.
RetractedLists == {[i \in 1..n |-> i] : n \in 0..MaxRetracted}

\* .unwrap_or_else(|e| { log; None }).unwrap_or_default(): the fetched
\* transactions, empty when the fetch failed or found no body.
body_or_default(res) == IF res.ok THEN unwrap_or(res.v, <<>>) ELSE <<>>

\* Variant: nothing of the body is handed to prune_known.
body_hashes_none(res) == {}

\* .into_iter().map(|tx| pool.hash_of(&tx)).collect()
body_hashes(res) == {hash_of(tx) : tx \in Range(body_or_default(res))}

\* Variant: an extrinsic that does not tell whether it is signed is dropped.
signed_transactions_known_only(res) ==
  SelectSeq(body_or_default(res), LAMBDA tx : unwrap_or(is_signed(tx), FALSE))

\* Variant: the filter keeps the unsigned extrinsics instead.
signed_transactions_unsigned(res) ==
  SelectSeq(body_or_default(res), LAMBDA tx : ~unwrap_or(is_signed(tx), TRUE))

\* .into_iter().filter(|tx| tx.is_signed().unwrap_or(true))
signed_transactions(res) ==
  SelectSeq(body_or_default(res), LAMBDA tx : unwrap_or(is_signed(tx), TRUE))

\* -------------------------------------------------------------------- state
VARIABLES
  strategy,    \* BasicPool.revalidation_strategy, the value behind the Mutex
  now,         \* Instant::now(), in seconds
  pool,        \* the transactions pending in BasicPool.pool
  cycles,      \* the futures returned by maintain, by slot; see IdleCycle
  lastNext,    \* observation: Some(the latest direct call of RevalidationStrategy::next,
               \* see NextCall and StrategyNext), None before the first one
  skipped,     \* observation: the latest step was a maintain call that found no
               \* number for its block and returned ready(())
  hist,        \* observation: see InitHist
  mutex,       \* the holder of the Mutex around the strategy: the slot of the
               \* future holding its guard, Unlocked when nobody does
  lastClear,   \* observation: Some(the strategy the latest direct call of
               \* RevalidationStrategy::clear found) while no direct call of next
               \* has followed it, None otherwise
  facadeFlag   \* observation: Some(the is_resubmission flag of the facade's
               \* latest pool.submit_at), None before the first one

vars == <<strategy, now, pool, cycles, lastNext, skipped, hist, mutex, lastClear, facadeFlag>>

\* Nobody holds the guard of `revalidation_strategy: Arc<Mutex<..>>` (line 55).
Unlocked == 0

\* The is_resubmission argument of pool.submit_at: false from the facade
\* (line 140), true from maintain (line 348).
facade_is_resubmission == FALSE
maintain_is_resubmission == TRUE

\* A slot holding no future.  A future in flight carries what the async block
\* of maintain captured (id, retracted, next_action) and its local
\* resubmit_transactions; pc is its next suspension point.  Two observations
\* ride along: calls lists, in order, the collaborator calls the cycle has made,
\* each with its outcome, and disturbed tells that the facade accepted a
\* transaction while the cycle was in flight.
NoAction == RevalidationAction(FALSE, FALSE, None)
IdleCycle ==
  [pc |-> "idle", id |-> 0, action |-> NoAction, retracted |-> <<>>,
   resubmit_transactions |-> <<>>, calls |-> <<>>, disturbed |-> FALSE]

\* The Light schedule as observed from outside (not kept under Always).
\* hist.prev: Some(the height and time of the latest maintain call that
\* computed an action), None before the first; hist.revalidated: some maintain
\* call obtained revalidate = true; hist.increasing: no maintain call came at a
\* lower height than the one before.
InitHist == [prev |-> None, revalidated |-> FALSE, increasing |-> TRUE]

\* One call of RevalidationStrategy::next: its arguments, Instant::now() when it
\* ran, the strategy it found and the RevalidationAction it returned.
NextCall(before, block, instant, time_period, block_period, action) ==
  [before |-> before, block |-> block, instant |-> instant,
   time_period |-> time_period, block_period |-> block_period, action |-> action]

\* One collaborator call: ok is whether it succeeded, arg what it was given or gave.
Call(op, ok, arg) == [op |-> op, ok |-> ok, arg |-> arg]

RevalidationTypes == {"Light", "Full"}

Init ==
  /\ \E t \in RevalidationTypes : strategy = with_revalidation_type(t)
  /\ now = 0
  /\ pool = {}
  /\ cycles = [c \in Cycles |-> IdleCycle]
  /\ lastNext = None
  /\ skipped = FALSE
  /\ hist = InitHist
  /\ mutex = Unlocked
  /\ lastClear = None
  /\ facadeFlag = None

\* Where the async block goes once the resubmission step is over (line 355).
AfterResubmit(action) == IF action.revalidate THEN "revalidate" ELSE "clear"
\* Where it goes once the pruning step is over (lines 333, 336).
AfterPrune(action, retracted) ==
  IF action.resubmit
  THEN IF retracted = <<>> THEN "submit" ELSE "retracted"
  ELSE AfterResubmit(action)

\* Variant: maintain goes on with any Ok answer, `None` read as block 0.
has_number_any_ok(number) == number.ok

\* `match api.block_id_to_number(&id) { Ok(Some(number)) => number, _ => return }`
\* (lines 299-305): whether maintain goes on with a number.
has_number(number) == number.ok /\ number.v # None

\* Variant: a failed fetch of the head's body drops the future where it stands.
after_head_body_aborts(res, pruned, action, retracted) ==
  IF res.ok /\ res.v # None THEN AfterPrune(action, retracted) ELSE "idle"

\* After api.block_body(&id) returned res and prune_known returned pruned: a
\* failure is logged and the block goes on (lines 319-331).
after_head_body(res, pruned, action, retracted) == AfterPrune(action, retracted)

\* Variant: a failed submit_at is tried again.
after_submit_at_again(ok, action) ==
  IF ok THEN AfterResubmit(action) ELSE "submit"

\* Variant: a failed submit_at skips the revalidation step.
after_submit_at_aborts(ok, action) ==
  IF ok THEN AfterResubmit(action) ELSE "clear"

\* After pool.submit_at returned: an error is logged and the block goes on
\* (lines 348-353).
after_submit_at(ok, action) == AfterResubmit(action)

\* The slot a new future takes: the lowest one holding none.
FreeSlot(c) ==
  /\ cycles[c].pc = "idle"
  /\ \A d \in Cycles : d < c => cycles[d].pc # "idle"

\* Time passes.
Tick ==
  /\ \E t \in Times : t > now /\ now' = t
  /\ skipped' = FALSE
  /\ UNCHANGED <<strategy, pool, cycles, lastNext, hist, mutex, lastClear, facadeFlag>>

\* The periods maintain hands to next (lines 309-310).
revalidate_time_period == Some(TimePeriod)
revalidate_block_period == Some(BlockPeriod)

\* Variant: the block period handed to next is one block short.
maintain_next_short(s, block_number, instant) ==
  RevalidationStrategy_next(s, block_number, instant,
                            revalidate_time_period, Some(BlockPeriod - 1))

\* The strategy step of maintain (lines 307-311) at height block_number.
maintain_next(s, block_number, instant) ==
  RevalidationStrategy_next(s, block_number, instant,
                            revalidate_time_period, revalidate_block_period)

\* Variant: the guard lives on in the future of slot c.
lock_after_next_held(c) == c

\* Who holds the Mutex once the statement of lines 307-311 is over: the guard
\* returned by lock() is a temporary of that statement and is dropped with it.
lock_after_next(c) == Unlocked

\* Variant: the future ends without clearing the strategy.
maintain_clear_skipped(s) == s

\* The final step of the async block (line 361).
maintain_clear(s) == RevalidationStrategy_clear(s)

\* BasicPool::maintain(id, retracted), the synchronous part (lines 295-313):
\* number is what api.block_id_to_number(&id) returned.
Maintain(c, id, retracted, number) ==
  /\ FreeSlot(c)
  /\ skipped' = (~number.ok \/ number.v = None)
  /\ IF has_number(number)
     THEN LET block_number == unwrap_or(number.v, 0)
              r == maintain_next(strategy, block_number, now)
          IN /\ mutex = Unlocked
             /\ mutex' = lock_after_next(c)
             /\ strategy' = r.strategy
             /\ cycles' = [cycles EXCEPT ![c] =
                  [pc |-> "start", id |-> id, action |-> r.action,
                   retracted |-> retracted, resubmit_transactions |-> <<>>,
                   calls |-> <<Call("next", TRUE, block_number)>>,
                   disturbed |-> FALSE]]
             /\ hist' =
                  IF strategy.kind # "Light" THEN hist ELSE
                  [prev |-> Some([block |-> block_number, instant |-> now]),
                   revalidated |-> hist.revalidated \/ r.action.revalidate,
                   increasing |-> hist.increasing
                                  /\ \A prev \in hist.prev : prev.block <= block_number]
     ELSE UNCHANGED <<strategy, cycles, hist, mutex>>
  /\ UNCHANGED <<now, pool, lastNext, lastClear, facadeFlag>>

\* Variant: the head's body is asked for whatever the pool holds.
should_prune_always(p) == TRUE

\* `if !pool.status().is_empty()` (line 317): whether the pruning step runs.
should_prune(p) == ~Pool_is_empty(p)

\* The future is polled: `if !pool.status().is_empty()` (line 317) and, when the
\* pool holds something, the request for the head's body (line 318).
PruneCheck(c) ==
  /\ cycles[c].pc = "start"
  /\ cycles' = [cycles EXCEPT
       ![c].pc = IF should_prune(pool)
                 THEN "head_body"
                 ELSE AfterPrune(cycles[c].action, cycles[c].retracted),
       ![c].calls = Append(@, Call("status", TRUE, Pool_is_empty(pool)))]
  /\ skipped' = FALSE
  /\ UNCHANGED <<strategy, now, pool, lastNext, hist, mutex, lastClear, facadeFlag>>

\* api.block_body(&id) returns res; the hashes are pruned (lines 318-330);
\* pruned tells whether pool.prune_known returned Ok.
HeadBody(c, res, pruned) ==
  /\ cycles[c].pc = "head_body"
  /\ pool' = IF pruned THEN Pool_prune_known(pool, body_hashes(res)) ELSE pool
  /\ cycles' = [cycles EXCEPT
       ![c].pc = after_head_body(res, pruned, cycles[c].action, cycles[c].retracted),
       ![c].calls = @ \o <<Call("block_body", res.ok /\ res.v # None, body_or_default(res)),
                           Call("prune_known", pruned, cycles[c].id)>>]
  /\ skipped' = FALSE
  /\ UNCHANGED <<strategy, now, lastNext, hist, mutex, lastClear, facadeFlag>>

\* api.block_body of the next retracted block returns res (lines 336-347).
FetchRetracted(c, res) ==
  /\ cycles[c].pc = "retracted"
  /\ LET rest == Tail(cycles[c].retracted)
     IN cycles' = [cycles EXCEPT
          ![c].pc = IF rest = <<>> THEN "submit" ELSE "retracted",
          ![c].retracted = rest,
          ![c].resubmit_transactions = @ \o signed_transactions(res),
          ![c].calls = Append(@, Call("block_body_retracted", res.ok /\ res.v # None,
                                      body_or_default(res)))]
  /\ skipped' = FALSE
  /\ UNCHANGED <<strategy, now, pool, lastNext, hist, mutex, lastClear, facadeFlag>>

\* pool.submit_at(&id, resubmit_transactions, true) returns (lines 348-352):
\* an error, or the transactions the pool accepted at block id.
SubmitAt(c, ok, accepted) ==
  /\ cycles[c].pc = "submit"
  /\ accepted \subseteq Range(cycles[c].resubmit_transactions)
  /\ ~ok => accepted = {}
  /\ pool' = Pool_submit_at(pool, accepted)
  /\ cycles' = [cycles EXCEPT
       ![c].pc = after_submit_at(ok, cycles[c].action),
       ![c].calls = Append(@, Call("submit_at", ok,
                                   [at |-> cycles[c].id,
                                    xts |-> cycles[c].resubmit_transactions,
                                    is_resubmission |-> maintain_is_resubmission,
                                    accepted |-> accepted]))]
  /\ skipped' = FALSE
  /\ UNCHANGED <<strategy, now, lastNext, hist, mutex, lastClear, facadeFlag>>

\* The transactions cycle c's submit_at had accepted: valid at block id.
AcceptedBy(c) ==
  UNION {k.arg.accepted : k \in {cycles[c].calls[i] : i \in
           {j \in 1..Len(cycles[c].calls) : cycles[c].calls[j].op = "submit_at"}}}

\* pool.revalidate_ready(&id, revalidate_amount) returns (lines 355-359): an
\* error, or the pool has dropped the transactions it found invalid at id,
\* none of them one it accepted at id in this cycle.
Revalidate(c, ok, removed) ==
  /\ cycles[c].pc = "revalidate"
  /\ removed \subseteq pool \ AcceptedBy(c)
  /\ ~ok => removed = {}
  /\ pool' = Pool_revalidate_ready(pool, removed)
  /\ cycles' = [cycles EXCEPT
       ![c].pc = "clear",
       ![c].calls = Append(@, Call("revalidate_ready", ok,
                                   cycles[c].action.revalidate_amount))]
  /\ skipped' = FALSE
  /\ UNCHANGED <<strategy, now, lastNext, hist, mutex, lastClear, facadeFlag>>

\* revalidation_strategy.lock().clear() (line 361); the future is done.
Clear(c) ==
  /\ cycles[c].pc = "clear"
  /\ mutex = Unlocked
  /\ mutex' = Unlocked
  /\ strategy' = maintain_clear(strategy)
  /\ cycles' = [cycles EXCEPT ![c] = IdleCycle]
  /\ skipped' = FALSE
  /\ UNCHANGED <<now, pool, lastNext, hist, lastClear, facadeFlag>>

\* TransactionPool::submit_at of the facade (lines 132-142):
\* pool.submit_at(&at, xts, false); accepted are the transactions taken.
FacadeSubmit(xts, accepted) ==
  /\ accepted \subseteq xts
  /\ pool' = Pool_submit_at(pool, accepted)
  /\ cycles' = [c \in Cycles |->
       IF cycles[c].pc # "idle" /\ accepted # {}
       THEN [cycles[c] EXCEPT !.disturbed = TRUE] ELSE cycles[c]]
  /\ skipped' = FALSE
  /\ facadeFlag' = Some(facade_is_resubmission)
  /\ UNCHANGED <<strategy, now, lastNext, hist, mutex, lastClear>>

\* One maintenance stream: a single future in flight (slot 1), any inputs.
Stream == {1}

Next ==
  \/ Tick
  \/ \E tx \in Txs, a \in BOOLEAN : FacadeSubmit({tx}, IF a THEN {tx} ELSE {})
  \/ \E c \in Stream, id \in Heights, retracted \in RetractedLists :
       \E number \in NumberResults(id) : Maintain(c, id, retracted, number)
  \/ \E c \in Stream : PruneCheck(c)
  \/ \E c \in Stream, res \in BodyResults, pruned \in BOOLEAN : HeadBody(c, res, pruned)
  \/ \E c \in Stream, res \in BodyResults : FetchRetracted(c, res)
  \/ \E c \in Stream, ok \in BOOLEAN, accepted \in SUBSET Txs : SubmitAt(c, ok, accepted)
  \/ \E c \in Stream, ok \in BOOLEAN, removed \in SUBSET Txs : Revalidate(c, ok, removed)
  \/ \E c \in Stream : Clear(c)

Spec == Init /\ [][Next]_vars

\* ------------------------------------------------- the strategy on its own
\* RevalidationStrategy::next called directly, with any height and any periods.
StrategyNext(block, time_period, block_period) ==
  /\ LET r == RevalidationStrategy_next(strategy, block, now, time_period, block_period)
     IN /\ strategy' = r.strategy
        /\ lastNext' = Some(NextCall(strategy, block, now, time_period, block_period,
                                      r.action))
  /\ lastClear' = None
  /\ UNCHANGED <<now, pool, cycles, skipped, hist, mutex, facadeFlag>>

\* RevalidationStrategy::clear called directly.
StrategyClear ==
  /\ strategy' = RevalidationStrategy_clear(strategy)
  /\ lastClear' = Some(strategy)
  /\ UNCHANGED <<now, pool, cycles, lastNext, skipped, hist, mutex, facadeFlag>>

TimePeriods == {None, Some(TimePeriod)}
BlockPeriods == {None, Some(BlockPeriod)}

NextStrategy ==
  \/ Tick
  \/ \E block \in Heights, tp \in TimePeriods, bp \in BlockPeriods : StrategyNext(block, tp, bp)
  \/ StrategyClear

SpecStrategy == Init /\ [][NextStrategy]_vars

\* ------------------------------------------- overlapping Light maintenance
InitLight == Init /\ strategy.kind = "Light"

\* Up to MaxCycles futures in flight on a Light pool that stays empty, the
\* heads at multiples of BlockPeriod, within TimePeriod.
PeriodHeights == {h \in Heights : h % BlockPeriod = 0}

NextBurst ==
  \/ \E c \in Cycles, id \in PeriodHeights :
       \E number \in NumberResults(id) : Maintain(c, id, <<>>, number)
  \/ \E c \in Cycles : PruneCheck(c)
  \/ \E c \in Cycles, ok \in BOOLEAN : Revalidate(c, ok, {})
  \/ \E c \in Cycles : Clear(c)

SpecBurst == InitLight /\ [][NextBurst]_vars

\* Two futures in flight, on either strategy, while time passes and the facade
\* submits; the chain events carry no retracted blocks and transaction 1 is the
\* only one around.
Pair == {c \in Cycles : c <= 2}
PairBodies == {Err, Ok(Some(<<1>>))}

NextPair ==
  \/ Tick
  \/ \E a \in BOOLEAN : FacadeSubmit({1}, IF a THEN {1} ELSE {})
  \/ \E c \in Pair, id \in Heights :
       \E number \in NumberResults(id) : Maintain(c, id, <<>>, number)
  \/ \E c \in Pair : PruneCheck(c)
  \/ \E c \in Pair, res \in PairBodies, pruned \in BOOLEAN : HeadBody(c, res, pruned)
  \/ \E c \in Pair, ok \in BOOLEAN : SubmitAt(c, ok, {})
  \/ \E c \in Pair, ok \in BOOLEAN : Revalidate(c, ok, {})
  \/ \E c \in Pair : Clear(c)

SpecPair == Init /\ [][NextPair]_vars

\* ------------------------------------------------------------------ claims
\* The calls named op in a cycle's list of calls.
Made(calls, op) == {calls[i] : i \in {j \in 1..Len(calls) : calls[j].op = op}}
InFlight(c) == cycles[c].pc # "idle"
IsLight == strategy.kind = "Light"
IsAlways == strategy.kind = "Always"
\* Some step of cycle c.
CycleStep(c) ==
  \/ PruneCheck(c)
  \/ \E res \in BodyResults, pruned \in BOOLEAN : HeadBody(c, res, pruned)
  \/ \E res \in BodyResults : FetchRetracted(c, res)
  \/ \E ok \in BOOLEAN, accepted \in SUBSET Txs : SubmitAt(c, ok, accepted)
  \/ \E ok \in BOOLEAN, removed \in SUBSET Txs : Revalidate(c, ok, removed)
  \/ Clear(c)
\* Cycle c ends in this step.
Ends(c) == InFlight(c) /\ cycles'[c].pc = "idle"

\* C1: under Light, with maintain invoked at increasing heights, once a maintain
\* call comes BlockPeriod blocks or TimePeriod seconds after the maintain call
\* before it, some maintain call has obtained revalidate = true.
C1_PeriodicRevalidation ==
  [][(/\ IsLight
      /\ \E c \in Cycles : ~InFlight(c) /\ cycles'[c].pc = "start"
      /\ hist'.increasing
      /\ \E prev \in hist.prev, cur \in hist'.prev :
           \/ cur.block >= prev.block + BlockPeriod
           \/ cur.instant >= prev.instant + TimePeriod)
     => hist'.revalidated]_vars

\* C2: under Light (maintain invoked at increasing heights), no two cycles in
\* flight both hold Action.revalidate = true: while the cycle that obtained it
\* has not run its final clear, no other maintain call obtains it.
C2_OneRevalidationInFlight ==
  (IsLight /\ hist.increasing) =>
    Cardinality({c \in Cycles : InFlight(c) /\ cycles[c].action.revalidate}) <= 1

\* C3: under Light every change of the status follows NotScheduled -> Scheduled
\* -> InProgress -> NotScheduled, and the reset to NotScheduled is made by the
\* final clear of a cycle that obtained revalidate = true.
C3_StatusCycle ==
  [][(IsLight /\ strategy' # strategy) =>
       \/ strategy.status.tag = "NotScheduled" /\ strategy'.status.tag = "Scheduled"
       \/ strategy.status.tag = "Scheduled" /\ strategy'.status.tag = "InProgress"
       \/ /\ strategy.status.tag = "InProgress"
          /\ strategy'.status.tag = "NotScheduled"
          /\ \E c \in Cycles : Ends(c) /\ cycles[c].action.revalidate]_vars

\* C4: under Always every call of next returns revalidate = true, resubmit =
\* true and revalidate_amount = Some(16), whatever the height, the periods and
\* the time, and next and clear leave the strategy Always.
C4_AlwaysAction ==
  [][IsAlways =>
       /\ strategy' = Always
       /\ lastNext' # lastNext =>
            \A call \in lastNext' :
              call.action = RevalidationAction(TRUE, TRUE, Some(AlwaysAmount))]_vars
C4_Witness ==
  /\ IsAlways
  /\ now >= TimePeriod
  /\ \E call \in lastNext :
       /\ call.block >= BlockPeriod
       /\ call.time_period = None
       /\ call.action = RevalidationAction(TRUE, TRUE, Some(AlwaysAmount))

\* C5: under Light no cycle resubmits: Action.resubmit is false, no retracted
\* block's body is fetched, submit_at is not called by maintain, and no step of
\* a cycle adds a transaction to the pool.
C5_LightNeverResubmits ==
  [][IsLight =>
       /\ \A c \in Cycles :
            /\ ~cycles'[c].action.resubmit
            /\ cycles'[c].pc \notin {"retracted", "submit"}
            /\ Made(cycles'[c].calls, "block_body_retracted") = {}
            /\ Made(cycles'[c].calls, "submit_at") = {}
       /\ (\E c \in Cycles : cycles'[c].calls # cycles[c].calls \/ Ends(c))
            => pool' \subseteq pool]_vars
C5_Witness ==
  /\ IsLight
  /\ pool # {}
  /\ \E c \in Cycles :
       /\ cycles[c].pc = "clear"
       /\ cycles[c].retracted # <<>>
       /\ Made(cycles[c].calls, "prune_known") # {}

\* C6: a maintain call whose head has no number (block_id_to_number gave an
\* error or Ok(None)) changes nothing: the strategy is as it was, no future is
\* started, no collaborator is called, the pool is as it was.
C6_NoNumberNoEffect ==
  [][skipped' =>
       /\ strategy' = strategy
       /\ cycles' = cycles
       /\ pool' = pool
       /\ hist' = hist]_vars
C6_Witness ==
  /\ skipped
  /\ pool # {}
  /\ hist.prev # None

\* A fetch or pool call named op of this list failed.
Failed(calls, op) == \E k \in Made(calls, op) : ~k.ok
\* The async block of cycle c is past its pruning step.
PastPrune(c) == cycles[c].pc \in {"retracted", "submit", "revalidate", "clear"}
\* Cycle c makes a collaborator call in this step.
Calls(c) == cycles'[c].calls # cycles[c].calls

\* C7: when the fetch of the head's body fails (an error, or no body) the cycle
\* goes on: the pruning step removes nothing from the pool, the block proceeds
\* to its next step, it can always take a further step, and it ends only by its
\* final clear, which leaves a Light status NotScheduled.
C7_HeadBodyFailure ==
  /\ [](\A c \in Cycles :
          (InFlight(c) /\ Failed(cycles[c].calls, "block_body")) =>
            (PastPrune(c) /\ ENABLED CycleStep(c)))
  /\ [][\A c \in Cycles :
          /\ (cycles[c].pc = "head_body" /\ Calls(c)
                /\ Failed(cycles'[c].calls, "block_body"))
               => /\ pool' = pool
                  /\ cycles'[c].pc \in {"retracted", "submit", "revalidate", "clear"}
          /\ (Failed(cycles[c].calls, "block_body") /\ Ends(c))
               => /\ cycles[c].pc = "clear"
                  /\ strategy' = RevalidationStrategy_clear(strategy)
                  /\ IsLight => strategy'.status = NotScheduled]_vars
C7_Witness ==
  /\ pool # {}
  /\ \E c \in Cycles :
       /\ cycles[c].pc = "clear"
       /\ Failed(cycles[c].calls, "block_body")
       /\ ~Failed(cycles[c].calls, "prune_known")

\* C8: the pruning step with a fetched head body and a successful prune_known
\* removes exactly the body's transactions from the pool; and as long as the
\* cycle is in flight, had no retracted block and the facade accepted nothing
\* meanwhile, no transaction of the head's body is pending.
C8_PruneExactlyHead ==
  /\ [](\A c \in Cycles : \A k \in Made(cycles[c].calls, "block_body") :
          (/\ InFlight(c) /\ k.ok
           /\ ~Failed(cycles[c].calls, "prune_known")
           /\ Made(cycles[c].calls, "block_body_retracted") = {}
           /\ cycles[c].retracted = <<>>
           /\ ~cycles[c].disturbed)
          => pool \cap Range(k.arg) = {})
  /\ [][\A c \in Cycles :
          (/\ cycles[c].pc = "head_body" /\ Calls(c)
           /\ ~Failed(cycles'[c].calls, "block_body")
           /\ ~Failed(cycles'[c].calls, "prune_known"))
          => \A k \in Made(cycles'[c].calls, "block_body") :
               pool' = pool \ Range(k.arg)]_vars
C8_Witness ==
  /\ pool = {2}
  /\ \E c \in Cycles :
       /\ cycles[c].pc = "clear"
       /\ ~cycles[c].disturbed
       /\ Made(cycles[c].calls, "block_body_retracted") = {}
       /\ ~Failed(cycles[c].calls, "prune_known")
       /\ \E k \in Made(cycles[c].calls, "block_body") : k.ok /\ k.arg = <<1>>

C10_FailuresIsolated ==
  /\ [](\A c \in Cycles :
          /\ InFlight(c) => ENABLED CycleStep(c)
          /\ Made(cycles[c].calls, "revalidate_ready") # {} => cycles[c].action.revalidate
          /\ (PastPrune(c) /\ \E k \in Made(cycles[c].calls, "status") : ~k.arg)
               => Made(cycles[c].calls, "prune_known") # {}
          /\ cycles[c].pc = "clear" =>
               (cycles[c].action.revalidate
                  <=> Made(cycles[c].calls, "revalidate_ready") # {}))
  /\ [][\A c \in Cycles :
          Ends(c) => /\ cycles[c].pc = "clear"
                     /\ strategy' = RevalidationStrategy_clear(strategy)]_vars
C10_Witness ==
  \E c \in Cycles :
    /\ cycles[c].pc = "clear"
    /\ Failed(cycles[c].calls, "block_body")
    /\ Failed(cycles[c].calls, "prune_known")
    /\ Failed(cycles[c].calls, "block_body_retracted")
    /\ Failed(cycles[c].calls, "submit_at")
    /\ Made(cycles[c].calls, "revalidate_ready") # {}

\* This step is a direct call of RevalidationStrategy::next.
IsNextCall ==
  \E block \in Heights, tp \in TimePeriods, bp \in BlockPeriods : StrategyNext(block, tp, bp)
\* The deadline a period gives when counted from a height or an instant.
Deadline(from, period) == IF period = None THEN None ELSE Some(from + unwrap_or(period, 0))

\* C12: next_required on NotScheduled at block B and time now returns false
\* and leaves Scheduled, with the time deadline now + time_period when a time
\* period is given and the block deadline B + block_period when a block period
\* is given.
C12_ArmsDeadlines ==
  [][(IsNextCall /\ strategy = Light(NotScheduled))
       => \A call \in lastNext' :
            /\ ~call.action.revalidate
            /\ strategy' = Light(Scheduled(Deadline(now, call.time_period),
                                           Deadline(call.block, call.block_period)))]_vars
C12_Witness ==
  \E call \in lastNext :
    /\ call.before = Light(NotScheduled)
    /\ call.block = BlockPeriod - 1
    /\ call.instant = TimePeriod - 1
    /\ call.time_period # None /\ call.block_period # None
    /\ ~call.action.revalidate
    /\ strategy = Light(Scheduled({2 * TimePeriod - 1}, {2 * BlockPeriod - 1}))

\* C13: next_required on Scheduled(t, b) returns true and leaves InProgress
\* exactly when t is set and now >= t, or b is set and block >= b; otherwise it
\* returns false and leaves Scheduled(t, b) as it was.
C13_DueExactlyAtDeadline ==
  [][(IsNextCall /\ IsLight /\ strategy.status.tag = "Scheduled")
       => \A call \in lastNext' :
            LET due == \/ strategy.status.time # None
                          /\ now >= unwrap_or(strategy.status.time, 0)
                       \/ strategy.status.block # None
                          /\ call.block >= unwrap_or(strategy.status.block, 0)
            IN /\ call.action.revalidate <=> due
               /\ due => strategy' = Light(InProgress)
               /\ ~due => strategy' = strategy]_vars
\* The time deadline alone fires, the block deadline being set and not reached.
C13_Witness ==
  \E call \in lastNext :
    /\ call.before.kind = "Light" /\ call.before.status.tag = "Scheduled"
    /\ \E b \in call.before.status.block : call.block < b
    /\ \E t \in call.before.status.time : call.instant >= t
    /\ call.action.revalidate
    /\ strategy = Light(InProgress)

\* C14: a Light next call that returns revalidate = true leaves InProgress;
\* from InProgress every next call, at any height and time, returns revalidate
\* = false and leaves InProgress; only clear takes the status out of it.
C14_NoReentry ==
  [][/\ (IsNextCall /\ IsLight)
          => \A call \in lastNext' :
               /\ call.action.revalidate => strategy' = Light(InProgress)
               /\ strategy = Light(InProgress)
                    => (~call.action.revalidate /\ strategy' = Light(InProgress))
     /\ (strategy = Light(InProgress) /\ strategy' # strategy)
          => lastClear' = Some(Light(InProgress))]_vars
C14_Witness ==
  \E call \in lastNext :
    /\ call.before = Light(InProgress)
    /\ call.block = MaxBlockPeriods * BlockPeriod
    /\ call.instant = MaxTimePeriods * TimePeriod
    /\ ~call.action.revalidate
    /\ strategy = Light(InProgress)

\* C15: clear leaves a Light strategy's status NotScheduled whatever it was,
\* changes nothing of Always, and no call changes the kind of the strategy.
C15_ClearResets ==
  /\ [](\A before \in lastClear :
          /\ before.kind = "Light" => strategy = Light(NotScheduled)
          /\ before.kind = "Always" => strategy = Always)
  /\ [][strategy'.kind = strategy.kind]_vars
\* clear has run on a pass in progress.
C15_Witness ==
  /\ lastClear = Some(Light(InProgress))
  /\ strategy = Light(NotScheduled)

\* Cycle c is suspended on block_body, submit_at or revalidate_ready.
Suspended(c) == cycles[c].pc \in {"head_body", "retracted", "submit", "revalidate"}

\* C11: no future holds the strategy's lock between its steps; so while a
\* cycle is suspended on block_body, submit_at or revalidate_ready, whatever
\* the others do, a maintain call for any head that resolves can compute its
\* Action and the facade can put a new transaction into the pool.
C11_LockNotHeldAcrossAwait ==
  /\ mutex = Unlocked
  /\ \A c \in Cycles : Suspended(c) =>
       /\ \A d \in Cycles, id \in Heights :
            FreeSlot(d) =>
              ENABLED (/\ Maintain(d, id, <<>>, Ok(Some(id)))
                       /\ cycles'[d].pc = "start"
                       /\ cycles'[d].action = maintain_next(strategy, id, now).action)
       /\ ENABLED (FacadeSubmit({1}, {1}) /\ 1 \in pool')
\* Cycle 1 still waits for the head's body; meanwhile another maintain call
\* has computed its Action and the facade has had a transaction accepted.
C11_Witness ==
  /\ cycles[1].pc = "head_body"
  /\ cycles[1].disturbed
  /\ cycles[2].pc = "revalidate"
  /\ cycles[2].id > cycles[1].id

\* How many calls named op a cycle's list holds.
Count(calls, op) == Cardinality({j \in 1..Len(calls) : calls[j].op = op})
\* The extrinsics of a body that are signed or do not tell.
Kept(body) == SelectSeq(body, LAMBDA tx : is_signed(tx) # Some(FALSE))
\* What the fetches of retracted bodies in a list of calls add up to, in order.
RECURSIVE Accumulated(_)
Accumulated(calls) ==
  IF calls = <<>> THEN <<>>
  ELSE LET k == Head(calls)
       IN (IF k.op = "block_body_retracted" /\ k.ok THEN Kept(k.arg) ELSE <<>>)
          \o Accumulated(Tail(calls))

\* C16: in a cycle with Action.resubmit, resubmit_transactions is at every
\* moment what the fetched retracted bodies add up to, in order, keeping the
\* extrinsics that are signed or do not tell and dropping the unsigned ones, a
\* failed fetch adding nothing; each retracted block is fetched once; all of it
\* goes into a single submit_at at the head with the resubmission flag set,
\* while the facade's submit_at has the flag unset.
C16_ResubmitAccumulates ==
  /\ [](/\ \A f \in facadeFlag : f = FALSE
        /\ \A c \in Cycles : (InFlight(c) /\ cycles[c].action.resubmit) =>
             /\ cycles[c].resubmit_transactions = Accumulated(cycles[c].calls)
             /\ cycles[c].pc \in {"submit", "revalidate", "clear"} => cycles[c].retracted = <<>>
             /\ Count(cycles[c].calls, "submit_at")
                  = IF cycles[c].pc \in {"revalidate", "clear"} THEN 1 ELSE 0
             /\ \A k \in Made(cycles[c].calls, "submit_at") :
                  /\ k.arg.xts = Accumulated(cycles[c].calls)
                  /\ k.arg.at = cycles[c].id
                  /\ k.arg.is_resubmission
                  /\ k.arg.accepted \subseteq Range(k.arg.xts))
  /\ [][\A c \in Cycles :
          (InFlight(c) /\ cycles'[c].pc # "idle" /\ cycles[c].action.resubmit) =>
            Len(cycles'[c].retracted) + Count(cycles'[c].calls, "block_body_retracted")
              = Len(cycles[c].retracted) + Count(cycles[c].calls, "block_body_retracted")]_vars
\* Two retracted blocks: one fetch failed, the other gave transaction 2, which
\* does not tell whether it is signed; transaction 2 was submitted.
C16_Witness ==
  /\ facadeFlag = Some(FALSE)
  /\ \E c \in Cycles :
       /\ cycles[c].pc = "clear"
       /\ Failed(cycles[c].calls, "block_body_retracted")
       /\ \E k \in Made(cycles[c].calls, "block_body_retracted") : k.ok /\ k.arg = <<2>>
       /\ \E k \in Made(cycles[c].calls, "submit_at") : k.arg.xts = <<2>> /\ k.arg.is_resubmission

\* The place of a call in the order of one cycle.
Rank(op) ==
  CASE op = "next" -> 0
    [] op = "status" -> 1
    [] op = "block_body" -> 2
    [] op = "prune_known" -> 3
    [] op = "block_body_retracted" -> 4
    [] op = "submit_at" -> 5
    [] op = "revalidate_ready" -> 6
\* Cycle c starts in this step: maintain has returned its future.
Starts(c) == ~InFlight(c) /\ cycles'[c].pc = "start"

\* C17: a cycle's calls come in one order: next first and once, made by
\* maintain itself before the future runs, then the pruning calls, then the
\* resubmission calls, then revalidate_ready, none of them twice but the fetch
\* of retracted bodies; the strategy is not touched again until the cycle ends,
\* which it does by clear, after all its calls.
C17_StepOrder ==
  /\ [](\A c \in Cycles : InFlight(c) =>
          LET calls == cycles[c].calls
          IN /\ calls # <<>> /\ calls[1].op = "next"
             /\ Count(calls, "next") = 1
             /\ \A i, j \in 1..Len(calls) :
                  i < j => \/ Rank(calls[i].op) < Rank(calls[j].op)
                           \/ /\ calls[i].op = "block_body_retracted"
                              /\ calls[j].op = "block_body_retracted")
  /\ [][\A c \in Cycles :
          /\ Starts(c) =>
               /\ Len(cycles'[c].calls) = 1
               /\ cycles'[c].action
                    = maintain_next(strategy, cycles'[c].calls[1].arg, now).action
          /\ (InFlight(c) /\ cycles'[c].pc # "idle") => strategy' = strategy
          /\ Ends(c) => /\ cycles[c].pc = "clear"
                        /\ strategy' = RevalidationStrategy_clear(strategy)
                        /\ pool' = pool]_vars
\* A cycle that has made every kind of call and is about to clear.
C17_Witness ==
  \E c \in Cycles :
    /\ cycles[c].pc = "clear"
    /\ \A op \in {"next", "status", "block_body", "prune_known",
                  "block_body_retracted", "submit_at", "revalidate_ready"} :
         Made(cycles[c].calls, op) # {}
    /\ Count(cycles[c].calls, "block_body_retracted") = MaxRetracted

\* The cycle found the pool empty at its pruning step.
FoundEmpty(c) == \E k \in Made(cycles[c].calls, "status") : k.arg

\* C18: a cycle that finds the pool empty at its pruning step fetches no head
\* body and does not call prune_known; the step leaves the pool as it is and
\* hands over to resubmission, revalidation or clear as the Action says, and
\* the cycle reaches clear with submit_at called exactly if Action.resubmit and
\* revalidate_ready exactly if Action.revalidate.
C18_EmptyPoolSkipsPrune ==
  /\ [](\A c \in Cycles : (InFlight(c) /\ FoundEmpty(c)) =>
          /\ Made(cycles[c].calls, "block_body") = {}
          /\ Made(cycles[c].calls, "prune_known") = {}
          /\ cycles[c].pc # "head_body"
          /\ ENABLED CycleStep(c)
          /\ cycles[c].pc = "clear" =>
               /\ cycles[c].action.resubmit <=> Made(cycles[c].calls, "submit_at") # {}
               /\ cycles[c].action.revalidate
                    <=> Made(cycles[c].calls, "revalidate_ready") # {})
  /\ [][\A c \in Cycles :
          (cycles[c].pc = "start" /\ Calls(c) /\ pool = {}) =>
            /\ pool' = pool
            /\ cycles'[c].pc =
                 IF cycles[c].action.resubmit
                 THEN (IF cycles[c].retracted = <<>> THEN "submit" ELSE "retracted")
                 ELSE IF cycles[c].action.revalidate THEN "revalidate" ELSE "clear"]_vars
C18_Witness ==
  \E c \in Cycles :
    /\ cycles[c].pc = "clear"
    /\ FoundEmpty(c)
    /\ Made(cycles[c].calls, "block_body_retracted") # {}
    /\ Made(cycles[c].calls, "submit_at") # {}
    /\ Made(cycles[c].calls, "revalidate_ready") # {}

C19_LightRevalidatesOnSchedule ==
  /\ [](IsLight => \A c \in Cycles :
          /\ cycles[c].action.revalidate_amount = None
          /\ \A k \in Made(cycles[c].calls, "revalidate_ready") :
               cycles[c].action.revalidate /\ k.arg = None)
  /\ [][IsLight =>
          /\ \A c \in Cycles : Starts(c) =>
               LET block == cycles'[c].calls[1].arg
                   revalidate == cycles'[c].action.revalidate
               IN /\ strategy.status.tag = "NotScheduled" =>
                       /\ ~revalidate
                       /\ strategy' = Light(Scheduled(Some(now + 60), Some(block + 20)))
                  /\ revalidate =>
                       /\ strategy.status.tag = "Scheduled"
                       /\ \/ \E b \in strategy.status.block : block >= b
                          \/ \E t \in strategy.status.time : now >= t
                       /\ strategy' = Light(InProgress)
          /\ (strategy.status.tag = "Scheduled" /\ strategy' # strategy) =>
               \/ strategy' = Light(InProgress) /\ \E c \in Cycles : Starts(c)
               \/ strategy' = Light(NotScheduled) /\ \E c \in Cycles : Ends(c)]_vars
\* A cycle at height 20 that revalidated on the time deadline alone: the
\* arming call came at height 19, so the block deadline (39) was not reached.
C19_Witness ==
  /\ IsLight
  /\ \E c \in Cycles :
       /\ cycles[c].pc = "clear"
       /\ cycles[c].action.revalidate
       /\ cycles[c].calls[1].arg = BlockPeriod
       /\ now = TimePeriod
       /\ \E k \in Made(cycles[c].calls, "revalidate_ready") : k.arg = None
       /\ \E d \in Cycles : d # c /\ InFlight(d) /\ cycles[d].calls[1].arg = BlockPeriod - 1
====
